---- MODULE Spec2Model ----
(***************************************************************************)
(* Model of the relatient-prototype REST API: three in-memory stores       *)
(* (patients, providers, appointments) and the list/get/create/update/     *)
(* delete handlers of routes/patients.js, routes/providers.js and          *)
(* routes/appointments.js.  One action per route handler; every request    *)
(* runs to completion (single-threaded, synchronous handlers).             *)
(*                                                                         *)
(* JSON values: strings are TLA+ strings, objects are functions from field *)
(* names to values (a field that is absent is not in the DOMAIN), arrays   *)
(* are sequences (1-based here, 0-based in the source).  The JavaScript    *)
(* values null and undefined are the two reserved strings Null and         *)
(* Undefined, which no request payload of the model uses as a string.      *)
(***************************************************************************)
EXTENDS Integers, Sequences, FiniteSets, TLC

VARIABLES patients, providers, appointments, req, resp, issued, steps

vars == <<steps, patients, providers, appointments, req, resp, issued>>

stores == <<patients, providers, appointments>>

\* Number of requests served in one run of the model.
MaxSteps == 3

Null == "<null>"

Undefined == "<undefined>"

\* The body express.json() leaves on a request that carries none: {}.
EmptyBody == [f \in {} |-> Undefined]

(***************************************************************************)
(* JavaScript helpers used by the handlers                                 *)
(***************************************************************************)

\* Presence test `x !== undefined` in place of truthiness.
truthyIfDefined(v) == v # Undefined

\* Truthiness of a JSON string / null / undefined value (`!x` is its negation).
truthy(v) == v \notin {"", Null, Undefined}

\* Destructuring `const { f } = req.body`: undefined when the field is absent.
Field(body, f) == IF f \in DOMAIN body THEN body[f] ELSE Undefined

\* `x ?? null`: null only for an absent (or null) value, "" is kept.
orNullIfAbsent(v) == IF v \in {Null, Undefined} THEN Null ELSE v

\* `x || null`
orNull(v) == IF truthy(v) THEN v ELSE Null

\* Template-literal rendering `${v}` of a value.
Str(v) == IF v = Null THEN "null" ELSE IF v = Undefined THEN "undefined" ELSE v

\* Array.prototype.some(r => r.id === id)
some(store, id) == \E i \in 1..Len(store) : store[i].id = id

\* findLastIndex in place of findIndex: the last matching position, or -1.
findLastIndex(store, id) ==
    IF some(store, id)
    THEN CHOOSE i \in 1..Len(store) :
            /\ store[i].id = id
            /\ \A j \in (i + 1)..Len(store) : store[j].id # id
    ELSE -1

\* Array.prototype.findIndex(r => r.id === id): the first matching position
\* (1-based), or -1 when no record matches.
findIndex(store, id) ==
    IF some(store, id)
    THEN CHOOSE i \in 1..Len(store) :
            /\ store[i].id = id
            /\ \A j \in 1..(i - 1) : store[j].id # id
    ELSE -1

\* Array.prototype.find(r => r.id === id): the first matching record, or
\* undefined.
find(store, id) ==
    IF some(store, id) THEN store[findIndex(store, id)] ELSE Undefined

\* Removal that fills the hole with the last element (swap-remove).
spliceSwapLast(store, index) ==
    IF index = Len(store)
    THEN SubSeq(store, 1, Len(store) - 1)
    ELSE [SubSeq(store, 1, Len(store) - 1) EXCEPT ![index] = store[Len(store)]]

\* Array.prototype.splice(index, 1): remove the element at index.
splice(store, index) ==
    SubSeq(store, 1, index - 1) \o SubSeq(store, index + 1, Len(store))

\* The spread with the id of the stored record protected.
spreadKeepsId(old, body) ==
    [f \in (DOMAIN old) \cup (DOMAIN body) |->
        IF f \in DOMAIN body /\ f # "id" THEN body[f] ELSE old[f]]

\* `{ ...body, ...old }`: the spread with its operands swapped.
spreadOldWins(old, body) ==
    [f \in (DOMAIN old) \cup (DOMAIN body) |->
        IF f \in DOMAIN old THEN old[f] ELSE body[f]]

\* Object spread `{ ...old, ...body }`.
spread(old, body) ==
    [f \in (DOMAIN old) \cup (DOMAIN body) |->
        IF f \in DOMAIN body THEN body[f] ELSE old[f]]

\* store[index] = record
setAt(store, index, record) == [store EXCEPT ![index] = record]

(***************************************************************************)
(* Responses                                                               *)
(***************************************************************************)

\* res.status(status).json(body); res.json(body) is status 200.
json(status, body) == [status |-> status, body |-> body]

\* res.status(status).json({ message, code })
error(status, message, code) ==
    [status |-> status, body |-> [message |-> message, code |-> code]]

\* res.status(204).send()
send204 == [status |-> 204, body |-> Undefined]

\* The error code of a response, "" for a success.
Code(r) == IF r.status \in {400, 404} THEN r.body.code ELSE ""

request(method, resource, id, body) ==
    [method |-> method, resource |-> resource, id |-> id, body |-> body]

(***************************************************************************)
(* Seed data                                                               *)
(***************************************************************************)

seedPatients ==
    << [id |-> "pat1", firstName |-> "Frank", lastName |-> "White",
        dateOfBirth |-> "1985-03-20", contactNumber |-> "555-555-555",
        email |-> "frank@aol.com"],
       [id |-> "pat2", firstName |-> "Bob", lastName |-> "Johnson",
        dateOfBirth |-> "1992-11-05", contactNumber |-> "555-333-4444",
        email |-> "bob@aol.com"] >>

seedProviders ==
    << [id |-> "prov1", firstName |-> "Dr. Emily", lastName |-> "White",
        specialty |-> "General Practice", contactNumber |-> "555-777-8888",
        email |-> "emily.w@example.com"],
       [id |-> "prov2", firstName |-> "Dr. Michael", lastName |-> "Green",
        specialty |-> "Pediatrics", contactNumber |-> "555-999-0000",
        email |-> "michael.g@example.com"] >>

seedAppointments ==
    << [id |-> "app1", patientId |-> "pat1", providerId |-> "prov1",
        date |-> "2025-06-15T10:00:00Z", type |-> "Check-up",
        status |-> "scheduled"],
       [id |-> "app2", patientId |-> "pat2", providerId |-> "prov2",
        date |-> "2025-06-16T14:30:00Z", type |-> "Follow-up",
        status |-> "scheduled"] >>

\* The ids of the records of a store, as a set.
idsOf(store) == { store[i].id : i \in 1..Len(store) }

Init ==
    /\ patients = seedPatients
    /\ providers = seedProviders
    /\ appointments = seedAppointments
    /\ req = request("NONE", "NONE", Undefined, EmptyBody)
    /\ resp = json(0, Undefined)
    /\ issued = [patients |-> idsOf(seedPatients),
                 providers |-> idsOf(seedProviders),
                 appointments |-> idsOf(seedAppointments)]
    /\ steps = 0

(***************************************************************************)
(* Request inputs                                                          *)
(***************************************************************************)

PatientIds == {"pat1", "pat2", "pat3", "nope"}

ProviderIds == {"prov1", "prov2", "nope"}

AppointmentIds == {"app1", "app2", "nope"}

PatientCreateBodies ==
    { [firstName |-> "Alice", lastName |-> "Smith", dateOfBirth |-> "1990-01-01"],
      [id |-> "pat1", firstName |-> "Alice", lastName |-> "Smith",
       dateOfBirth |-> "1990-01-01", contactNumber |-> "555-111-2222",
       email |-> ""],
      [firstName |-> "X"],
      [firstName |-> "Alice", lastName |-> "", dateOfBirth |-> "1990-01-01"],
      [firstName |-> "Alice", lastName |-> "Smith", dateOfBirth |-> Null] }

PatientUpdateBodies ==
    { EmptyBody,
      [email |-> "new@x.com"],
      [firstName |-> "", contactNumber |-> Null],
      [id |-> "pat2"] }

(***************************************************************************)
(* routes/patients.js                                                      *)
(***************************************************************************)

\* GET /patients
PatientsList ==
    /\ steps < MaxSteps
    /\ req' = request("GET", "patients", Undefined, EmptyBody)
    /\ resp' = json(200, patients)
    /\ steps' = steps + 1
    /\ UNCHANGED <<patients, providers, appointments, issued>>

\* GET /patients/:id  (`!patient` holds exactly when find matched no record)
PatientsGet(id) ==
    /\ steps < MaxSteps
    /\ req' = request("GET", "patients", id, EmptyBody)
    /\ IF ~some(patients, id)
       THEN resp' = error(404, "Patient with ID " \o Str(id) \o " not found",
                          "PATIENT_NOT_FOUND")
       ELSE resp' = json(200, find(patients, id))
    /\ steps' = steps + 1
    /\ UNCHANGED <<patients, providers, appointments, issued>>

\* The record built with an id counted from the ids issued so far, which a
\* deletion does not lower.
newPatientMonotonic(body) ==
    [id |-> "pat" \o ToString(Cardinality(issued.patients) + 1),
     firstName |-> Field(body, "firstName"),
     lastName |-> Field(body, "lastName"),
     dateOfBirth |-> Field(body, "dateOfBirth"),
     contactNumber |-> orNull(Field(body, "contactNumber")),
     email |-> orNull(Field(body, "email"))]

\* The record built with a payload id taking precedence over the generated one.
newPatientIdFromBody(body) ==
    [id |-> IF truthy(Field(body, "id")) THEN body.id
            ELSE "pat" \o ToString(Len(patients) + 1),
     firstName |-> Field(body, "firstName"),
     lastName |-> Field(body, "lastName"),
     dateOfBirth |-> Field(body, "dateOfBirth"),
     contactNumber |-> orNull(Field(body, "contactNumber")),
     email |-> orNull(Field(body, "email"))]

\* The record built by POST /patients.
newPatient(body) ==
    [id |-> "pat" \o ToString(Len(patients) + 1),
     firstName |-> Field(body, "firstName"),
     lastName |-> Field(body, "lastName"),
     dateOfBirth |-> Field(body, "dateOfBirth"),
     contactNumber |-> orNull(Field(body, "contactNumber")),
     email |-> orNull(Field(body, "email"))]

\* POST /patients
PatientsPost(body) ==
    /\ steps < MaxSteps
    /\ req' = request("POST", "patients", Undefined, body)
    /\ IF \/ ~truthy(Field(body, "firstName"))
          \/ ~truthy(Field(body, "lastName"))
          \/ ~truthy(Field(body, "dateOfBirth"))
       THEN /\ resp' = error(400, "Missing required fields.", "INVALID_INPUT")
            /\ UNCHANGED <<patients, issued>>
       ELSE /\ patients' = Append(patients, newPatient(body))
            /\ resp' = json(201, newPatient(body))
            /\ issued' = [issued EXCEPT !.patients = @ \cup {newPatient(body).id}]
    /\ steps' = steps + 1
    /\ UNCHANGED <<providers, appointments>>

\* PUT /patients/:id re-validating the required fields of the merged record.
PatientsPutRevalidates(id, body) ==
    /\ steps < MaxSteps
    /\ req' = request("PUT", "patients", id, body)
    /\ LET index == findIndex(patients, id) IN
       IF index = -1
       THEN /\ resp' = error(404, "Patient with ID " \o Str(id) \o " not found.",
                             "PATIENT_NOT_FOUND")
            /\ UNCHANGED patients
       ELSE LET merged == spread(patients[index], body) IN
       IF \/ ~truthy(merged.firstName)
          \/ ~truthy(merged.lastName)
          \/ ~truthy(merged.dateOfBirth)
       THEN /\ resp' = error(400, "Missing required fields.", "INVALID_INPUT")
            /\ UNCHANGED patients
       ELSE /\ patients' = setAt(patients, index, merged)
            /\ resp' = json(200, merged)
    /\ steps' = steps + 1
    /\ UNCHANGED <<providers, appointments, issued>>

\* PUT /patients/:id
PatientsPut(id, body) ==
    /\ steps < MaxSteps
    /\ req' = request("PUT", "patients", id, body)
    /\ LET index == findIndex(patients, id) IN
       IF index = -1
       THEN /\ resp' = error(404, "Patient with ID " \o Str(id) \o " not found.",
                             "PATIENT_NOT_FOUND")
            /\ UNCHANGED patients
       ELSE /\ patients' = setAt(patients, index, spread(patients[index], body))
            /\ resp' = json(200, spread(patients[index], body))
    /\ steps' = steps + 1
    /\ UNCHANGED <<providers, appointments, issued>>

\* DELETE /patients/:id that also removes the appointments of the patient.
PatientsDeleteCascade(id) ==
    /\ steps < MaxSteps
    /\ req' = request("DELETE", "patients", id, EmptyBody)
    /\ LET index == findIndex(patients, id) IN
       IF index = -1
       THEN /\ resp' = error(404, "Patient with ID " \o Str(id) \o " not found.",
                             "PATIENT_NOT_FOUND")
            /\ UNCHANGED <<patients, appointments>>
       ELSE /\ patients' = splice(patients, index)
            /\ appointments' = SelectSeq(appointments, LAMBDA a : a.patientId # id)
            /\ resp' = send204
    /\ steps' = steps + 1
    /\ UNCHANGED <<providers, issued>>

\* DELETE /patients/:id
PatientsDelete(id) ==
    /\ steps < MaxSteps
    /\ req' = request("DELETE", "patients", id, EmptyBody)
    /\ LET index == findIndex(patients, id) IN
       IF index = -1
       THEN /\ resp' = error(404, "Patient with ID " \o Str(id) \o " not found.",
                             "PATIENT_NOT_FOUND")
            /\ UNCHANGED patients
       ELSE /\ patients' = splice(patients, index)
            /\ resp' = send204
    /\ steps' = steps + 1
    /\ UNCHANGED <<providers, appointments, issued>>

(***************************************************************************)
(* routes/providers.js                                                     *)
(***************************************************************************)

ProviderCreateBodies ==
    { [firstName |-> "Dr. Sarah", lastName |-> "Doe", specialty |-> "Dermatology"],
      [id |-> "prov1", firstName |-> "Dr. Sarah", lastName |-> "Doe",
       specialty |-> "Dermatology", contactNumber |-> Null,
       email |-> "sarah.doe@example.com"],
      [lastName |-> "Doe", specialty |-> "Dermatology"],
      [firstName |-> "Dr. Sarah", lastName |-> "Doe", specialty |-> ""] }

ProviderUpdateBodies ==
    { EmptyBody,
      [specialty |-> "", email |-> "new@x.com"],
      [id |-> "prov2"] }

\* GET /providers
ProvidersList ==
    /\ steps < MaxSteps
    /\ req' = request("GET", "providers", Undefined, EmptyBody)
    /\ resp' = json(200, providers)
    /\ steps' = steps + 1
    /\ UNCHANGED <<patients, providers, appointments, issued>>

\* GET /providers/:id answering with the patients' not-found code.
ProvidersGetPatientCode(id) ==
    /\ steps < MaxSteps
    /\ req' = request("GET", "providers", id, EmptyBody)
    /\ IF ~some(providers, id)
       THEN resp' = error(404, "Provider with ID " \o Str(id) \o " not found",
                          "PATIENT_NOT_FOUND")
       ELSE resp' = json(200, find(providers, id))
    /\ steps' = steps + 1
    /\ UNCHANGED <<patients, providers, appointments, issued>>

\* GET /providers/:id
ProvidersGet(id) ==
    /\ steps < MaxSteps
    /\ req' = request("GET", "providers", id, EmptyBody)
    /\ IF ~some(providers, id)
       THEN resp' = error(404, "Provider with ID " \o Str(id) \o " not found",
                          "PROVIDER_NOT_FOUND")
       ELSE resp' = json(200, find(providers, id))
    /\ steps' = steps + 1
    /\ UNCHANGED <<patients, providers, appointments, issued>>

\* The record built by POST /providers.
newProvider(body) ==
    [id |-> "prov" \o ToString(Len(providers) + 1),
     firstName |-> Field(body, "firstName"),
     lastName |-> Field(body, "lastName"),
     specialty |-> Field(body, "specialty"),
     contactNumber |-> orNull(Field(body, "contactNumber")),
     email |-> orNull(Field(body, "email"))]

\* POST /providers
ProvidersPost(body) ==
    /\ steps < MaxSteps
    /\ req' = request("POST", "providers", Undefined, body)
    /\ IF \/ ~truthy(Field(body, "firstName"))
          \/ ~truthy(Field(body, "lastName"))
          \/ ~truthy(Field(body, "specialty"))
       THEN /\ resp' = error(400, "Missing required fields.", "INVALID_INPUT")
            /\ UNCHANGED <<providers, issued>>
       ELSE /\ providers' = Append(providers, newProvider(body))
            /\ resp' = json(201, newProvider(body))
            /\ issued' = [issued EXCEPT !.providers = @ \cup {newProvider(body).id}]
    /\ steps' = steps + 1
    /\ UNCHANGED <<patients, appointments>>

\* PUT /providers/:id
ProvidersPut(id, body) ==
    /\ steps < MaxSteps
    /\ req' = request("PUT", "providers", id, body)
    /\ LET index == findIndex(providers, id) IN
       IF index = -1
       THEN /\ resp' = error(404, "Provider with ID " \o Str(id) \o " not found",
                             "PROVIDER_NOT_FOUND")
            /\ UNCHANGED providers
       ELSE /\ providers' = setAt(providers, index, spread(providers[index], body))
            /\ resp' = json(200, spread(providers[index], body))
    /\ steps' = steps + 1
    /\ UNCHANGED <<patients, appointments, issued>>

\* DELETE /providers/:id
ProvidersDelete(id) ==
    /\ steps < MaxSteps
    /\ req' = request("DELETE", "providers", id, EmptyBody)
    /\ LET index == findIndex(providers, id) IN
       IF index = -1
       THEN /\ resp' = error(404, "Provider with ID " \o Str(id) \o " not found",
                             "PROVIDER_NOT_FOUND")
            /\ UNCHANGED providers
       ELSE /\ providers' = splice(providers, index)
            /\ resp' = send204
    /\ steps' = steps + 1
    /\ UNCHANGED <<patients, appointments, issued>>

(***************************************************************************)
(* routes/appointments.js                                                  *)
(***************************************************************************)

appointmentBody(patientId, providerId) ==
    [patientId |-> patientId, providerId |-> providerId,
     date |-> "2025-06-15T10:00:00Z", type |-> "Check-up"]

AppointmentCreateBodies ==
    { appointmentBody(p, pr) : p \in {"pat1", "pat3", "nope"},
                               pr \in {"prov1", "nope"} }
    \cup
    { appointmentBody("pat1", "prov3"),
      [id |-> "app1", patientId |-> "pat1", providerId |-> "prov1",
       date |-> "2025-06-15T10:00:00Z", type |-> "Check-up",
       status |-> "completed"],
      [patientId |-> "nope", providerId |-> "prov1",
       date |-> "2025-06-15T10:00:00Z"],
      [patientId |-> "nope", date |-> "2025-06-15T10:00:00Z", type |-> "Check-up"],
      [patientId |-> "nope", providerId |-> "", date |-> "2025-06-15T10:00:00Z",
       type |-> "Check-up"],
      [providerId |-> "nope", date |-> "2025-06-15T10:00:00Z", type |-> "Check-up"],
      [patientId |-> "pat1", providerId |-> "prov1", date |-> Null,
       type |-> "Check-up"] }

AppointmentUpdateBodies ==
    { EmptyBody,
      [status |-> "cancelled"],
      [status |-> "", date |-> "tomorrow", type |-> ""],
      [patientId |-> "pat3"],
      [patientId |-> "nope", status |-> "cancelled"],
      [providerId |-> "nope", status |-> "cancelled"],
      [patientId |-> "nope", providerId |-> "nope"],
      [patientId |-> "pat2", providerId |-> "nope"],
      [patientId |-> "pat2", providerId |-> "prov2", type |-> "Follow-up"],
      [id |-> "app2"] }

\* GET /appointments
AppointmentsList ==
    /\ steps < MaxSteps
    /\ req' = request("GET", "appointments", Undefined, EmptyBody)
    /\ resp' = json(200, appointments)
    /\ steps' = steps + 1
    /\ UNCHANGED <<patients, providers, appointments, issued>>

\* GET /appointments/:id
AppointmentsGet(id) ==
    /\ steps < MaxSteps
    /\ req' = request("GET", "appointments", id, EmptyBody)
    /\ IF ~some(appointments, id)
       THEN resp' = error(404, "Appointment with ID " \o Str(id) \o " not found",
                          "APPOINTMENT_NOT_FOUND")
       ELSE resp' = json(200, find(appointments, id))
    /\ steps' = steps + 1
    /\ UNCHANGED <<patients, providers, appointments, issued>>

\* The patient check made against the records the store was seeded with.
patientExistsInSeed(patientId) == some(seedPatients, patientId)

\* The patient check left out.
patientExistsUnchecked(patientId) == TRUE

\* const patientExists = patients.some(p => p.id === patientId)
patientExists(patientId) == some(patients, patientId)

\* The provider check left out.
providerExistsUnchecked(providerId) == TRUE

\* const providerExists = providers.some(pr => pr.id === providerId)
providerExists(providerId) == some(providers, providerId)

\* The record built with the status taken from the payload when it has one.
newAppointmentStatusFromBody(body) ==
    [id |-> "app" \o ToString(Len(appointments) + 1),
     patientId |-> Field(body, "patientId"),
     providerId |-> Field(body, "providerId"),
     date |-> Field(body, "date"),
     type |-> Field(body, "type"),
     status |-> IF "status" \in DOMAIN body THEN body.status ELSE "scheduled"]

\* The record built by POST /appointments.
newAppointment(body) ==
    [id |-> "app" \o ToString(Len(appointments) + 1),
     patientId |-> Field(body, "patientId"),
     providerId |-> Field(body, "providerId"),
     date |-> Field(body, "date"),
     type |-> Field(body, "type"),
     status |-> "scheduled"]

\* POST /appointments checking the provider reference before the patient
\* reference.
AppointmentsPostProviderFirst(body) ==
    /\ steps < MaxSteps
    /\ req' = request("POST", "appointments", Undefined, body)
    /\ LET patientId == Field(body, "patientId")
           providerId == Field(body, "providerId")
       IN
       IF \/ ~truthy(patientId)
          \/ ~truthy(providerId)
          \/ ~truthy(Field(body, "date"))
          \/ ~truthy(Field(body, "type"))
       THEN /\ resp' = error(400, "Missing required fields for appointment creation.",
                             "INVALID_INPUT")
            /\ UNCHANGED <<appointments, issued>>
       ELSE IF ~providerExists(providerId)
       THEN /\ resp' = error(400, "Provider with ID " \o Str(providerId) \o " not found.",
                             "PROVIDER_NOT_FOUND")
            /\ UNCHANGED <<appointments, issued>>
       ELSE IF ~patientExists(patientId)
       THEN /\ resp' = error(400, "Patient with ID " \o Str(patientId) \o " not found.",
                             "PATIENT_NOT_FOUND")
            /\ UNCHANGED <<appointments, issued>>
       ELSE /\ appointments' = Append(appointments, newAppointment(body))
            /\ resp' = json(201, newAppointment(body))
            /\ issued' = [issued EXCEPT
                            !.appointments = @ \cup {newAppointment(body).id}]
    /\ steps' = steps + 1
    /\ UNCHANGED <<patients, providers>>

\* POST /appointments
AppointmentsPost(body) ==
    /\ steps < MaxSteps
    /\ req' = request("POST", "appointments", Undefined, body)
    /\ LET patientId == Field(body, "patientId")
           providerId == Field(body, "providerId")
       IN
       IF \/ ~truthy(patientId)
          \/ ~truthy(providerId)
          \/ ~truthy(Field(body, "date"))
          \/ ~truthy(Field(body, "type"))
       THEN /\ resp' = error(400, "Missing required fields for appointment creation.",
                             "INVALID_INPUT")
            /\ UNCHANGED <<appointments, issued>>
       ELSE IF ~patientExists(patientId)
       THEN /\ resp' = error(400, "Patient with ID " \o Str(patientId) \o " not found.",
                             "PATIENT_NOT_FOUND")
            /\ UNCHANGED <<appointments, issued>>
       ELSE IF ~providerExists(providerId)
       THEN /\ resp' = error(400, "Provider with ID " \o Str(providerId) \o " not found.",
                             "PROVIDER_NOT_FOUND")
            /\ UNCHANGED <<appointments, issued>>
       ELSE /\ appointments' = Append(appointments, newAppointment(body))
            /\ resp' = json(201, newAppointment(body))
            /\ issued' = [issued EXCEPT
                            !.appointments = @ \cup {newAppointment(body).id}]
    /\ steps' = steps + 1
    /\ UNCHANGED <<patients, providers>>

\* PUT /appointments/:id validating the merged record instead of the payload.
AppointmentsPutValidatesMerged(id, body) ==
    /\ steps < MaxSteps
    /\ req' = request("PUT", "appointments", id, body)
    /\ LET index == findIndex(appointments, id) IN
       IF index = -1
       THEN /\ resp' = error(404, "Appointment with ID " \o Str(id) \o " not found.",
                             "APPOINTMENT_NOT_FOUND")
            /\ UNCHANGED appointments
       ELSE LET merged == spread(appointments[index], body) IN
       IF ~patientExists(merged.patientId)
       THEN /\ resp' = error(400, "Patient with ID " \o Str(merged.patientId)
                                  \o " not found.", "PATIENT_NOT_FOUND")
            /\ UNCHANGED appointments
       ELSE IF ~providerExists(merged.providerId)
       THEN /\ resp' = error(400, "Provider with ID " \o Str(merged.providerId)
                                  \o " not found.", "PROVIDER_NOT_FOUND")
            /\ UNCHANGED appointments
       ELSE /\ appointments' = setAt(appointments, index, merged)
            /\ resp' = json(200, merged)
    /\ steps' = steps + 1
    /\ UNCHANGED <<patients, providers, issued>>

\* PUT /appointments/:id storing the patientId as soon as it has been
\* validated, before the providerId is checked.
AppointmentsPutEager(id, body) ==
    /\ steps < MaxSteps
    /\ req' = request("PUT", "appointments", id, body)
    /\ LET index == findIndex(appointments, id)
           patientId == Field(body, "patientId")
           providerId == Field(body, "providerId")
       IN
       IF index = -1
       THEN /\ resp' = error(404, "Appointment with ID " \o Str(id) \o " not found.",
                             "APPOINTMENT_NOT_FOUND")
            /\ UNCHANGED appointments
       ELSE IF patientId # Undefined /\ ~patientExists(patientId)
       THEN /\ resp' = error(400, "Patient with ID " \o Str(patientId) \o " not found.",
                             "PATIENT_NOT_FOUND")
            /\ UNCHANGED appointments
       ELSE IF providerId # Undefined /\ ~providerExists(providerId)
       THEN /\ resp' = error(400, "Provider with ID " \o Str(providerId) \o " not found.",
                             "PROVIDER_NOT_FOUND")
            /\ appointments' =
                  IF patientId # Undefined
                  THEN setAt(appointments, index,
                             [appointments[index] EXCEPT !.patientId = patientId])
                  ELSE appointments
       ELSE /\ appointments' =
                  setAt(appointments, index, spread(appointments[index], body))
            /\ resp' = json(200, spread(appointments[index], body))
    /\ steps' = steps + 1
    /\ UNCHANGED <<patients, providers, issued>>

\* PUT /appointments/:id accepting only a closed set of status values.
AppointmentsPutStatusEnum(id, body) ==
    /\ steps < MaxSteps
    /\ req' = request("PUT", "appointments", id, body)
    /\ LET index == findIndex(appointments, id)
           patientId == Field(body, "patientId")
           providerId == Field(body, "providerId")
       IN
       IF index = -1
       THEN /\ resp' = error(404, "Appointment with ID " \o Str(id) \o " not found.",
                             "APPOINTMENT_NOT_FOUND")
            /\ UNCHANGED appointments
       ELSE IF patientId # Undefined /\ ~patientExists(patientId)
       THEN /\ resp' = error(400, "Patient with ID " \o Str(patientId) \o " not found.",
                             "PATIENT_NOT_FOUND")
            /\ UNCHANGED appointments
       ELSE IF providerId # Undefined /\ ~providerExists(providerId)
       THEN /\ resp' = error(400, "Provider with ID " \o Str(providerId) \o " not found.",
                             "PROVIDER_NOT_FOUND")
            /\ UNCHANGED appointments
       ELSE IF Field(body, "status") \notin
                  {Undefined, "scheduled", "completed", "cancelled"}
       THEN /\ resp' = error(400, "Invalid status.", "INVALID_INPUT")
            /\ UNCHANGED appointments
       ELSE /\ appointments' =
                  setAt(appointments, index, spread(appointments[index], body))
            /\ resp' = json(200, spread(appointments[index], body))
    /\ steps' = steps + 1
    /\ UNCHANGED <<patients, providers, issued>>

\* PUT /appointments/:id  (`x !== undefined` holds exactly when the JSON
\* payload has the field x)
AppointmentsPut(id, body) ==
    /\ steps < MaxSteps
    /\ req' = request("PUT", "appointments", id, body)
    /\ LET index == findIndex(appointments, id)
           patientId == Field(body, "patientId")
           providerId == Field(body, "providerId")
       IN
       IF index = -1
       THEN /\ resp' = error(404, "Appointment with ID " \o Str(id) \o " not found.",
                             "APPOINTMENT_NOT_FOUND")
            /\ UNCHANGED appointments
       ELSE IF patientId # Undefined /\ ~patientExists(patientId)
       THEN /\ resp' = error(400, "Patient with ID " \o Str(patientId) \o " not found.",
                             "PATIENT_NOT_FOUND")
            /\ UNCHANGED appointments
       ELSE IF providerId # Undefined /\ ~providerExists(providerId)
       THEN /\ resp' = error(400, "Provider with ID " \o Str(providerId) \o " not found.",
                             "PROVIDER_NOT_FOUND")
            /\ UNCHANGED appointments
       ELSE /\ appointments' =
                  setAt(appointments, index, spread(appointments[index], body))
            /\ resp' = json(200, spread(appointments[index], body))
    /\ steps' = steps + 1
    /\ UNCHANGED <<patients, providers, issued>>

\* DELETE /appointments/:id
AppointmentsDelete(id) ==
    /\ steps < MaxSteps
    /\ req' = request("DELETE", "appointments", id, EmptyBody)
    /\ LET index == findIndex(appointments, id) IN
       IF index = -1
       THEN /\ resp' = error(404, "Appointment with ID " \o Str(id) \o " not found.",
                             "APPOINTMENT_NOT_FOUND")
            /\ UNCHANGED appointments
       ELSE /\ appointments' = splice(appointments, index)
            /\ resp' = send204
    /\ steps' = steps + 1
    /\ UNCHANGED <<patients, providers, issued>>

(***************************************************************************)
(* index.js: the router dispatches each request to one handler             *)
(***************************************************************************)

Next ==
    \/ PatientsList
    \/ \E id \in PatientIds : PatientsGet(id)
    \/ \E body \in PatientCreateBodies : PatientsPost(body)
    \/ \E id \in PatientIds, body \in PatientUpdateBodies : PatientsPut(id, body)
    \/ \E id \in PatientIds : PatientsDelete(id)
    \/ ProvidersList
    \/ \E id \in ProviderIds : ProvidersGet(id)
    \/ \E body \in ProviderCreateBodies : ProvidersPost(body)
    \/ \E id \in ProviderIds, body \in ProviderUpdateBodies : ProvidersPut(id, body)
    \/ \E id \in ProviderIds : ProvidersDelete(id)
    \/ AppointmentsList
    \/ \E id \in AppointmentIds : AppointmentsGet(id)
    \/ \E body \in AppointmentCreateBodies : AppointmentsPost(body)
    \/ \E id \in AppointmentIds, body \in AppointmentUpdateBodies :
            AppointmentsPut(id, body)
    \/ \E id \in AppointmentIds : AppointmentsDelete(id)

Spec == Init /\ [][Next]_vars

(***************************************************************************)
(* Properties.  A request and its response are the state variables req and *)
(* resp, so in a step req' and resp' are the request being served and its  *)
(* answer, the unprimed stores are the state at the request, and req and   *)
(* resp are the previous request and its answer.                           *)
(***************************************************************************)

Has(body, f) == f \in DOMAIN body

Resolves(store, id) == \E i \in DOMAIN store : store[i].id = id

FirstIndex(store, id) ==
    CHOOSE i \in DOMAIN store :
        store[i].id = id /\ \A j \in DOMAIN store : store[j].id = id => i <= j

StoreIn(resource, pats, provs, apps) ==
    CASE resource = "patients" -> pats
      [] resource = "providers" -> provs
      [] resource = "appointments" -> apps

NotFoundCode(resource) ==
    CASE resource = "patients" -> "PATIENT_NOT_FOUND"
      [] resource = "providers" -> "PROVIDER_NOT_FOUND"
      [] resource = "appointments" -> "APPOINTMENT_NOT_FOUND"

UniqueIn(store) ==
    \A i, j \in DOMAIN store : store[i].id = store[j].id => i = j

IsRequest(r, method, resource) == r.method = method /\ r.resource = resource

\* C1: in every reachable state no two records of the patients store share
\* an id, and likewise for the providers store and the appointments store.
C1_UniqueIds ==
    UniqueIn(patients) /\ UniqueIn(providers) /\ UniqueIn(appointments)

\* C2: the id returned by a successful create (201) differs from every id
\* issued earlier in the run to a record of the same resource kind, seeded
\* and since-deleted records included.
C2_FreshId ==
    [][(req'.method = "POST" /\ resp'.status = 201)
          => resp'.body.id \notin issued[req'.resource]]_vars

\* C3: POST /appointments appends a record only if, in the state at the
\* request, its patientId resolves in the patients store and its providerId
\* resolves in the providers store; a create whose patientId or providerId
\* does not resolve is answered with 400 and leaves the appointments store
\* unchanged.
C3_CreateRefsResolve ==
    [][IsRequest(req', "POST", "appointments") =>
         LET patientId == Field(req'.body, "patientId")
             providerId == Field(req'.body, "providerId")
             resolves == Resolves(patients, patientId)
                            /\ Resolves(providers, providerId)
         IN /\ appointments' # appointments =>
                  /\ resolves
                  /\ Len(appointments') = Len(appointments) + 1
                  /\ SubSeq(appointments', 1, Len(appointments)) = appointments
                  /\ appointments'[Len(appointments')].patientId = patientId
                  /\ appointments'[Len(appointments')].providerId = providerId
            /\ ~resolves => resp'.status = 400 /\ appointments' = appointments
      ]_vars

\* C3 witness: an appointment was created for a patient that was itself
\* created by an earlier request.
C3_Witness ==
    /\ IsRequest(req, "POST", "appointments")
    /\ resp.status = 201
    /\ req.body.patientId = "pat3"
    /\ appointments[Len(appointments)] = resp.body

\* C4 (as stated): POST /appointments with a patientId that matches no
\* patient always fails with 400 PATIENT_NOT_FOUND, whatever the providerId
\* is: valid, unknown, or otherwise invalid (missing or empty).
C4_Original ==
    [][(/\ IsRequest(req', "POST", "appointments")
        /\ truthy(Field(req'.body, "patientId"))
        /\ truthy(Field(req'.body, "date"))
        /\ truthy(Field(req'.body, "type"))
        /\ ~Resolves(patients, Field(req'.body, "patientId")))
          => (resp'.status = 400 /\ Code(resp') = "PATIENT_NOT_FOUND")]_vars

\* C4 (amended): POST /appointments with patientId, providerId, date and type
\* all non-empty and a patientId that matches no patient always fails with
\* 400 PATIENT_NOT_FOUND, whether or not the providerId resolves, and stores
\* nothing.
C4_PatientNotFound ==
    [][(/\ IsRequest(req', "POST", "appointments")
        /\ truthy(Field(req'.body, "patientId"))
        /\ truthy(Field(req'.body, "providerId"))
        /\ truthy(Field(req'.body, "date"))
        /\ truthy(Field(req'.body, "type"))
        /\ ~Resolves(patients, Field(req'.body, "patientId")))
          => /\ resp'.status = 400
             /\ Code(resp') = "PATIENT_NOT_FOUND"
             /\ appointments' = appointments]_vars

\* C4 witness: a create naming an unknown patient and a valid provider was
\* rejected with PATIENT_NOT_FOUND.
C4_Witness ==
    /\ IsRequest(req, "POST", "appointments")
    /\ Field(req.body, "patientId") = "nope"
    /\ Resolves(providers, Field(req.body, "providerId"))
    /\ Code(resp) = "PATIENT_NOT_FOUND"

\* C5: POST /appointments with non-empty patientId, providerId, date and type
\* whose patientId and providerId resolve always succeeds with 201, and the
\* stored and returned record has status "scheduled" whatever status the
\* payload supplies.
C5_CreateScheduled ==
    [][(/\ IsRequest(req', "POST", "appointments")
        /\ truthy(Field(req'.body, "patientId"))
        /\ truthy(Field(req'.body, "providerId"))
        /\ truthy(Field(req'.body, "date"))
        /\ truthy(Field(req'.body, "type"))
        /\ Resolves(patients, Field(req'.body, "patientId"))
        /\ Resolves(providers, Field(req'.body, "providerId")))
          => /\ resp'.status = 201
             /\ resp'.body.status = "scheduled"
             /\ appointments' = Append(appointments, resp'.body)
             /\ resp'.body.patientId = req'.body.patientId
             /\ resp'.body.providerId = req'.body.providerId
             /\ resp'.body.date = req'.body.date
             /\ resp'.body.type = req'.body.type]_vars

\* C5 witness: a create whose payload asked for status "completed" succeeded.
C5_Witness ==
    /\ IsRequest(req, "POST", "appointments")
    /\ resp.status = 201
    /\ Has(req.body, "status")
    /\ req.body.status = "completed"
    /\ appointments[Len(appointments)].status = "scheduled"

\* C6 (as stated): PUT /appointments/{id} on an existing appointment fails
\* with 400 PATIENT_NOT_FOUND when a supplied patientId does not resolve,
\* fails with 400 PROVIDER_NOT_FOUND when a supplied providerId does not
\* resolve, both leaving the appointment unchanged, and succeeds with 200
\* when the payload supplies neither field.
C6_Original ==
    [][(IsRequest(req', "PUT", "appointments") /\ Resolves(appointments, req'.id))
          => /\ (Has(req'.body, "patientId")
                   /\ ~Resolves(patients, req'.body.patientId))
                  => /\ resp'.status = 400
                     /\ Code(resp') = "PATIENT_NOT_FOUND"
                     /\ appointments' = appointments
             /\ (Has(req'.body, "providerId")
                   /\ ~Resolves(providers, req'.body.providerId))
                  => /\ resp'.status = 400
                     /\ Code(resp') = "PROVIDER_NOT_FOUND"
                     /\ appointments' = appointments
             /\ (~Has(req'.body, "patientId") /\ ~Has(req'.body, "providerId"))
                  => resp'.status = 200]_vars

\* C6 (amended): as stated, except that an unresolved supplied providerId is
\* answered with 400 PROVIDER_NOT_FOUND only when the payload's patientId is
\* absent or resolves; when both supplied ids fail to resolve the answer is
\* 400 PATIENT_NOT_FOUND.
C6_UpdateRefs ==
    [][(IsRequest(req', "PUT", "appointments") /\ Resolves(appointments, req'.id))
          => /\ (Has(req'.body, "patientId")
                   /\ ~Resolves(patients, req'.body.patientId))
                  => /\ resp'.status = 400
                     /\ Code(resp') = "PATIENT_NOT_FOUND"
                     /\ appointments' = appointments
             /\ (/\ Has(req'.body, "providerId")
                 /\ ~Resolves(providers, req'.body.providerId)
                 /\ (Has(req'.body, "patientId")
                       => Resolves(patients, req'.body.patientId)))
                  => /\ resp'.status = 400
                     /\ Code(resp') = "PROVIDER_NOT_FOUND"
                     /\ appointments' = appointments
             /\ (~Has(req'.body, "patientId") /\ ~Has(req'.body, "providerId"))
                  => resp'.status = 200]_vars

\* C6 witness: an update supplying neither id succeeded on an appointment
\* whose stored patientId no longer resolves.
C6_Witness ==
    /\ IsRequest(req, "PUT", "appointments")
    /\ resp.status = 200
    /\ ~Has(req.body, "patientId")
    /\ ~Has(req.body, "providerId")
    /\ ~Resolves(patients, resp.body.patientId)

\* C7: a successful update yields, at the position of the addressed record,
\* a record in which every field of the payload has the payload's value and
\* every other field keeps its previous value; all other records are
\* unchanged, and an update with {} leaves the whole store as it was.
C7_PartialUpdate ==
    [][(req'.method = "PUT" /\ resp'.status = 200) =>
         LET old == StoreIn(req'.resource, patients, providers, appointments)
             new == StoreIn(req'.resource, patients', providers', appointments')
             i == FirstIndex(old, req'.id)
             body == req'.body
         IN /\ Resolves(old, req'.id)
            /\ Len(new) = Len(old)
            /\ \A k \in DOMAIN old : k # i => new[k] = old[k]
            /\ DOMAIN new[i] = (DOMAIN old[i]) \cup (DOMAIN body)
            /\ \A f \in DOMAIN body : new[i][f] = body[f]
            /\ \A f \in (DOMAIN old[i]) \ (DOMAIN body) : new[i][f] = old[i][f]
            /\ resp'.body = new[i]
            /\ (DOMAIN body = {} => new = old)]_vars

\* C7 witness: PUT /patients/pat1 with only an email changed the email of the
\* seeded record and kept its other fields.
C7_Witness ==
    /\ IsRequest(req, "PUT", "patients")
    /\ req.id = "pat1"
    /\ resp.status = 200
    /\ DOMAIN req.body = {"email"}
    /\ patients[1] = [seedPatients[1] EXCEPT !.email = "new@x.com"]

\* C8: after a Delete(id) answered with 204, the next request, if it is a
\* Delete or a Get of the same id on the same resource, is answered with 404
\* and the resource's not-found code.
C8_DeletedIsGone ==
    [][(/\ req.method = "DELETE"
        /\ resp.status = 204
        /\ req'.method \in {"DELETE", "GET"}
        /\ req'.resource = req.resource
        /\ req'.id = req.id)
          => /\ resp'.status = 404
             /\ Code(resp') = NotFoundCode(req'.resource)]_vars

\* C9: Get(id) with an id matching no record of the store returns 404 with
\* the resource's not-found code, Get(id) with a matching id returns 200 with
\* the (first) matching record, and neither changes any store.
C9_Get ==
    [][(req'.method = "GET" /\ req'.id # Undefined) =>
         LET store == StoreIn(req'.resource, patients, providers, appointments)
         IN /\ stores' = stores
            /\ IF Resolves(store, req'.id)
               THEN /\ resp'.status = 200
                    /\ resp'.body = store[FirstIndex(store, req'.id)]
                    /\ resp'.body.id = req'.id
               ELSE /\ resp'.status = 404
                    /\ Code(resp') = NotFoundCode(req'.resource)]_vars

\* C9 witness: a Get of a provider id that matches no record was answered
\* with 404 PROVIDER_NOT_FOUND.
C9_Witness ==
    /\ IsRequest(req, "GET", "providers")
    /\ req.id # Undefined
    /\ ~Resolves(providers, req.id)
    /\ resp.status = 404
    /\ Code(resp) = "PROVIDER_NOT_FOUND"

\* C10: a create, update or delete that is answered with 400 or 404 leaves
\* the patients, providers and appointments stores exactly as they were.
C10_Atomic ==
    [][(req'.method \in {"POST", "PUT", "DELETE"} /\ resp'.status \in {400, 404})
          => stores' = stores]_vars

\* C10 witness: an appointment update whose patientId resolved and whose
\* providerId did not was rejected.
C10_Witness ==
    /\ IsRequest(req, "PUT", "appointments")
    /\ Code(resp) = "PROVIDER_NOT_FOUND"
    /\ Has(req.body, "patientId")
    /\ Resolves(patients, req.body.patientId)
    /\ \E i \in DOMAIN appointments :
          appointments[i].id = req.id /\ appointments[i].patientId # req.body.patientId

\* C11: every patient request leaves the providers and appointments stores
\* unchanged, every provider request leaves the patients and appointments
\* stores unchanged (deleting a referenced patient or provider does not
\* cascade), and every appointment request leaves the patients and providers
\* stores unchanged.
C11_OwnStoreOnly ==
    [][/\ req'.resource = "patients"
            => providers' = providers /\ appointments' = appointments
       /\ req'.resource = "providers"
            => patients' = patients /\ appointments' = appointments
       /\ req'.resource = "appointments"
            => patients' = patients /\ providers' = providers]_vars

\* C11 witness: a patient referenced by a stored appointment was deleted and
\* the appointment is still stored, its patientId dangling.
C11_Witness ==
    /\ IsRequest(req, "DELETE", "patients")
    /\ resp.status = 204
    /\ ~Resolves(patients, req.id)
    /\ \E i \in DOMAIN appointments : appointments[i].patientId = req.id

RemoveAt(store, i) ==
    [k \in 1..(Len(store) - 1) |-> IF k < i THEN store[k] ELSE store[k + 1]]

\* C12: each store is kept in insertion order: List answers 200 with the
\* whole store in store order, a successful create puts the new record after
\* all existing records, a successful update leaves every record at its
\* position, and a successful delete leaves the remaining records in their
\* previous relative order.
C12_InsertionOrder ==
    [][LET old == StoreIn(req'.resource, patients, providers, appointments)
           new == StoreIn(req'.resource, patients', providers', appointments')
       IN /\ (req'.method = "GET" /\ req'.id = Undefined)
               => resp'.status = 200 /\ resp'.body = old /\ new = old
          /\ (req'.method = "POST" /\ resp'.status = 201)
               => /\ Len(new) = Len(old) + 1
                  /\ SubSeq(new, 1, Len(old)) = old
                  /\ new[Len(new)] = resp'.body
          /\ (req'.method = "PUT" /\ resp'.status = 200)
               => /\ Len(new) = Len(old)
                  /\ \E i \in DOMAIN old :
                        /\ old[i].id = req'.id
                        /\ new[i] = resp'.body
                        /\ \A k \in DOMAIN old : k # i => new[k] = old[k]
          /\ (req'.method = "DELETE" /\ resp'.status = 204)
               => \E i \in DOMAIN old :
                        old[i].id = req'.id /\ new = RemoveAt(old, i)]_vars

\* C12 witness: the first record of a provider store of three was deleted and
\* the two remaining records kept their order.
C12_Witness ==
    /\ IsRequest(req, "DELETE", "providers")
    /\ resp.status = 204
    /\ Len(providers) = 2
    /\ providers[1] = seedProviders[2]
    /\ providers[2].id = "prov3"

RequiredFields(resource) ==
    CASE resource = "patients" -> {"firstName", "lastName", "dateOfBirth"}
      [] resource = "providers" -> {"firstName", "lastName", "specialty"}
      [] resource = "appointments" -> {"patientId", "providerId", "date", "type"}

\* A required field is missing or empty (the empty string or JSON null).
MissingRequired(resource, body) ==
    \E f \in RequiredFields(resource) : ~Has(body, f) \/ body[f] \in {"", Null}

\* C13: a create with a required field missing or empty is answered with 400
\* INVALID_INPUT and stores nothing; a create with all required fields
\* non-empty is never answered with INVALID_INPUT.
C13_InvalidInput ==
    [][req'.method = "POST" =>
         IF MissingRequired(req'.resource, req'.body)
         THEN /\ resp'.status = 400
              /\ Code(resp') = "INVALID_INPUT"
              /\ stores' = stores
         ELSE Code(resp') # "INVALID_INPUT"]_vars

\* C13 witness: POST /patients with only a firstName was answered with 400
\* INVALID_INPUT.
C13_Witness ==
    /\ IsRequest(req, "POST", "patients")
    /\ DOMAIN req.body = {"firstName"}
    /\ resp.status = 400
    /\ Code(resp) = "INVALID_INPUT"
    /\ patients = seedPatients

OptionalFields == {"contactNumber", "email"}

\* C14 (as stated): a successful create of a patient or provider returns 201
\* with exactly the appended record, which carries the supplied required
\* fields unchanged and has contactNumber and email equal to the supplied
\* value, or null when the field is absent.
C14_Original ==
    [][(req'.method = "POST" /\ req'.resource \in {"patients", "providers"}
          /\ resp'.status = 201) =>
         LET new == StoreIn(req'.resource, patients', providers', appointments')
             rec == resp'.body
         IN /\ new[Len(new)] = rec
            /\ \A f \in RequiredFields(req'.resource) : rec[f] = req'.body[f]
            /\ \A f \in OptionalFields :
                  rec[f] = IF Has(req'.body, f) THEN req'.body[f] ELSE Null]_vars

\* C14 (amended): as stated, except that contactNumber and email are null
\* when the field is absent or empty (the empty string or null), and equal to
\* the supplied value otherwise.
C14_CreatedRecord ==
    [][(req'.method = "POST" /\ req'.resource \in {"patients", "providers"}
          /\ resp'.status = 201) =>
         LET old == StoreIn(req'.resource, patients, providers, appointments)
             new == StoreIn(req'.resource, patients', providers', appointments')
             rec == resp'.body
         IN /\ new = Append(old, rec)
            /\ DOMAIN rec = {"id"} \cup RequiredFields(req'.resource)
                               \cup OptionalFields
            /\ \A f \in RequiredFields(req'.resource) : rec[f] = req'.body[f]
            /\ \A f \in OptionalFields :
                  rec[f] = IF Has(req'.body, f) /\ req'.body[f] # ""
                           THEN req'.body[f] ELSE Null]_vars

\* C14 witness: a patient was created from a payload with a contactNumber and
\* an empty email; the record has that contactNumber and a null email.
C14_Witness ==
    /\ IsRequest(req, "POST", "patients")
    /\ resp.status = 201
    /\ Has(req.body, "email")
    /\ req.body.email = ""
    /\ resp.body.email = Null
    /\ resp.body.contactNumber = "555-111-2222"
    /\ patients[Len(patients)] = resp.body

\* C15: PUT /appointments/{id} on an existing appointment with a payload
\* that supplies no patientId and no providerId always succeeds with 200, and
\* the stored record takes the payload's status, date and type whatever
\* their values are; no status value is rejected.
C15_StatusUnconstrained ==
    [][(/\ IsRequest(req', "PUT", "appointments")
        /\ Resolves(appointments, req'.id)
        /\ ~Has(req'.body, "patientId")
        /\ ~Has(req'.body, "providerId")) =>
         LET i == FirstIndex(appointments, req'.id)
         IN /\ resp'.status = 200
            /\ \A f \in {"status", "date", "type"} \cap DOMAIN req'.body :
                  /\ appointments'[i][f] = req'.body[f]
                  /\ resp'.body[f] = req'.body[f]]_vars

\* C15 witness: an update set the status of an appointment to the empty
\* string, with a date that is no ISO date and an empty type.
C15_Witness ==
    /\ IsRequest(req, "PUT", "appointments")
    /\ resp.status = 200
    /\ DOMAIN req.body = {"status", "date", "type"}
    /\ \E i \in DOMAIN appointments :
          /\ appointments[i].status = ""
          /\ appointments[i].date = "tomorrow"
          /\ appointments[i].type = ""

\* C16: an update or delete of an id that matches no record of the addressed
\* store is answered with 404 and the resource's not-found code; an update
\* of a matching patient or provider id always succeeds with 200, whatever
\* the payload (required fields may be overwritten with empty values).
C16_UpdateDeleteNotFound ==
    [][req'.method \in {"PUT", "DELETE"} =>
         LET old == StoreIn(req'.resource, patients, providers, appointments)
         IN IF ~Resolves(old, req'.id)
            THEN /\ resp'.status = 404
                 /\ Code(resp') = NotFoundCode(req'.resource)
            ELSE (req'.method = "PUT"
                    /\ req'.resource \in {"patients", "providers"})
                   => resp'.status = 200]_vars

\* C16 witness: an update overwrote a patient's firstName with the empty
\* string and was answered with 200.
C16_Witness ==
    /\ IsRequest(req, "PUT", "patients")
    /\ resp.status = 200
    /\ Has(req.body, "firstName")
    /\ resp.body.firstName = ""
    /\ \E i \in DOMAIN patients : patients[i] = resp.body

IdPrefix(resource) ==
    CASE resource = "patients" -> "pat"
      [] resource = "providers" -> "prov"
      [] resource = "appointments" -> "app"

\* C17: the id assigned by a successful create is the resource prefix
\* followed by the number of records in that store before the create plus
\* one, whatever the payload and the other stores hold.
C17_SequentialId ==
    [][(req'.method = "POST" /\ resp'.status = 201) =>
         LET old == StoreIn(req'.resource, patients, providers, appointments)
             new == StoreIn(req'.resource, patients', providers', appointments')
         IN /\ resp'.body.id = IdPrefix(req'.resource) \o ToString(Len(old) + 1)
            /\ new[Len(new)].id = resp'.body.id]_vars

\* C17 witness: a patient created from a payload carrying id "pat1" got the
\* id "pat3" in a store of two records.
C17_Witness ==
    /\ IsRequest(req, "POST", "patients")
    /\ resp.status = 201
    /\ Has(req.body, "id")
    /\ req.body.id = "pat1"
    /\ resp.body.id = "pat3"
    /\ Len(patients) = 3

\* A successful delete immediately followed by a successful create on the
\* same store (req, resp: the delete; req', resp': the create).
DeleteThenCreate ==
    /\ req.method = "DELETE"
    /\ resp.status = 204
    /\ req'.method = "POST"
    /\ req'.resource = req.resource
    /\ resp'.status = 201

\* C18 (as stated): a successful deletion immediately followed by a
\* successful creation in the same store yields a record whose id was already
\* issued in that store, and when the deleted record was the only record of
\* the store the new record gets the deleted record's id.
C18_Original ==
    [][DeleteThenCreate =>
         LET old == StoreIn(req'.resource, patients, providers, appointments)
         IN /\ resp'.body.id \in issued[req'.resource]
            /\ Len(old) = 0 => resp'.body.id = req.id]_vars

\* C18 (amended): a successful deletion immediately followed by a successful
\* creation in the same store yields a record whose id was already issued in
\* that store; when the deleted record was the only record of the store the
\* new id is the prefix followed by 1, which is the deleted record's id only
\* if that record's id was the prefix followed by 1.
C18_ReissuedId ==
    [][DeleteThenCreate =>
         LET old == StoreIn(req'.resource, patients, providers, appointments)
         IN /\ resp'.body.id \in issued[req'.resource]
            /\ Len(old) = 0 =>
                 /\ resp'.body.id = IdPrefix(req'.resource) \o "1"
                 /\ (req.id = IdPrefix(req'.resource) \o "1"
                       => resp'.body.id = req.id)]_vars

\* C18 witness: the second request of a run created a patient in a store of
\* one record (so the first request deleted a patient), and the new patient
\* got the id of the seeded record pat2, which is still stored.
C18_Witness ==
    /\ steps = 2
    /\ IsRequest(req, "POST", "patients")
    /\ resp.status = 201
    /\ resp.body.id = "pat2"
    /\ patients = <<seedPatients[2], resp.body>>

\* The status and code POST /appointments answers with, by the order of its
\* checks.
PostAppointmentOutcome(body) ==
    IF MissingRequired("appointments", body) THEN <<400, "INVALID_INPUT">>
    ELSE IF ~Resolves(patients, body.patientId) THEN <<400, "PATIENT_NOT_FOUND">>
    ELSE IF ~Resolves(providers, body.providerId) THEN <<400, "PROVIDER_NOT_FOUND">>
    ELSE <<201, "">>

\* The status and code PUT /appointments/{id} answers with, by the order of
\* its checks.
PutAppointmentOutcome(id, body) ==
    IF ~Resolves(appointments, id) THEN <<404, "APPOINTMENT_NOT_FOUND">>
    ELSE IF Has(body, "patientId") /\ ~Resolves(patients, body.patientId)
    THEN <<400, "PATIENT_NOT_FOUND">>
    ELSE IF Has(body, "providerId") /\ ~Resolves(providers, body.providerId)
    THEN <<400, "PROVIDER_NOT_FOUND">>
    ELSE <<200, "">>

\* C19: an appointment request reports exactly one error, the first in a
\* fixed order: POST checks the required fields (INVALID_INPUT), then the
\* patient (PATIENT_NOT_FOUND), then the provider (PROVIDER_NOT_FOUND); PUT
\* checks the addressed appointment (404 APPOINTMENT_NOT_FOUND), then a
\* supplied patientId, then a supplied providerId.
C19_ErrorOrder ==
    [][/\ IsRequest(req', "POST", "appointments")
            => <<resp'.status, Code(resp')>> = PostAppointmentOutcome(req'.body)
       /\ IsRequest(req', "PUT", "appointments")
            => <<resp'.status, Code(resp')>>
                  = PutAppointmentOutcome(req'.id, req'.body)]_vars

\* C19 witness: a create naming an unknown patient and an unknown provider
\* was answered with PATIENT_NOT_FOUND.
C19_Witness ==
    /\ IsRequest(req, "POST", "appointments")
    /\ ~MissingRequired("appointments", req.body)
    /\ ~Resolves(patients, req.body.patientId)
    /\ ~Resolves(providers, req.body.providerId)
    /\ resp.status = 400
    /\ Code(resp) = "PATIENT_NOT_FOUND"

\* C20: the reference checks of appointment create and update use the
\* patients and providers stores as they are at the request: a create with
\* all required fields succeeds exactly when both ids match a record now
\* stored, and an update of an existing appointment succeeds exactly when
\* every supplied id matches a record now stored; an id whose records have
\* all been deleted is rejected with PATIENT_NOT_FOUND or PROVIDER_NOT_FOUND.
C20_CurrentStores ==
    [][/\ (IsRequest(req', "POST", "appointments")
             /\ ~MissingRequired("appointments", req'.body))
            => /\ resp'.status = 201
                    <=> /\ req'.body.patientId \in idsOf(patients)
                        /\ req'.body.providerId \in idsOf(providers)
               /\ resp'.status # 201
                    => Code(resp') \in {"PATIENT_NOT_FOUND", "PROVIDER_NOT_FOUND"}
       /\ (IsRequest(req', "PUT", "appointments")
             /\ Resolves(appointments, req'.id))
            => /\ resp'.status = 200
                    <=> /\ Has(req'.body, "patientId")
                            => req'.body.patientId \in idsOf(patients)
                        /\ Has(req'.body, "providerId")
                            => req'.body.providerId \in idsOf(providers)
               /\ resp'.status # 200
                    => Code(resp') \in {"PATIENT_NOT_FOUND", "PROVIDER_NOT_FOUND"}
      ]_vars

\* C20 witness: an appointment request naming the seeded patient pat1 was
\* rejected with PATIENT_NOT_FOUND after that patient had been deleted.
C20_Witness ==
    /\ req.resource = "appointments"
    /\ req.method \in {"POST", "PUT"}
    /\ Field(req.body, "patientId") = "pat1"
    /\ "pat1" \notin idsOf(patients)
    /\ resp.status = 400
    /\ Code(resp) = "PATIENT_NOT_FOUND"

\* C21: Get, Update and Delete act on the first record in store order whose
\* id matches and on no other record, also when several records share the
\* id; a successful delete shrinks its store by exactly one record, a
\* successful create grows its store by exactly one, and updates, gets and
\* failed requests leave the number of records of every store unchanged.
C21_FirstMatch ==
    [][LET old == StoreIn(req'.resource, patients, providers, appointments)
           new == StoreIn(req'.resource, patients', providers', appointments')
           i == FirstIndex(old, req'.id)
           grown == IF req'.method = "POST" /\ resp'.status = 201 THEN 1
                    ELSE IF req'.method = "DELETE" /\ resp'.status = 204 THEN -1
                    ELSE 0
       IN /\ (req'.method = "GET" /\ req'.id # Undefined /\ resp'.status = 200)
               => resp'.body = old[i]
          /\ (req'.method = "PUT" /\ resp'.status = 200)
               => new = [old EXCEPT ![i] = resp'.body]
          /\ (req'.method = "DELETE" /\ resp'.status = 204)
               => new = RemoveAt(old, i)
          /\ Len(new) = Len(old) + grown
          /\ Len(patients') + Len(providers') + Len(appointments')
                = Len(patients) + Len(providers) + Len(appointments) + grown
      ]_vars

\* C21 witness: a delete removed the first of two patients that shared an
\* id; the other one is still stored under that id.
C21_Witness ==
    /\ IsRequest(req, "DELETE", "patients")
    /\ resp.status = 204
    /\ Len(patients) = 1
    /\ patients[1] = seedPatients[2]
    /\ req.id = "pat2"

\* After the update, a lookup of id in the store does not yield position i.
NotFoundAt(store, id, i) == ~Resolves(store, id) \/ FirstIndex(store, id) # i

\* C22 (as stated): a successful Update(id, payload) leaves the record's id
\* equal to id when the payload has no id field; when the payload has an id
\* field the record's id becomes the payload's value and the record is no
\* longer found under its old id.
C22_Original ==
    [][(req'.method = "PUT" /\ resp'.status = 200) =>
         LET old == StoreIn(req'.resource, patients, providers, appointments)
             new == StoreIn(req'.resource, patients', providers', appointments')
             i == FirstIndex(old, req'.id)
         IN IF Has(req'.body, "id")
            THEN /\ new[i].id = req'.body.id
                 /\ NotFoundAt(new, req'.id, i)
            ELSE new[i].id = req'.id]_vars

\* C22 (amended): as stated, except that the record is no longer found under
\* its old id only when the payload's id differs from it; a payload id equal
\* to the record's id leaves the record where it was found.
C22_IdOverwrite ==
    [][(req'.method = "PUT" /\ resp'.status = 200) =>
         LET old == StoreIn(req'.resource, patients, providers, appointments)
             new == StoreIn(req'.resource, patients', providers', appointments')
             i == FirstIndex(old, req'.id)
         IN IF Has(req'.body, "id")
            THEN /\ new[i].id = req'.body.id
                 /\ resp'.body.id = req'.body.id
                 /\ IF req'.body.id # req'.id
                    THEN NotFoundAt(new, req'.id, i)
                    ELSE FirstIndex(new, req'.id) = i
            ELSE new[i].id = req'.id /\ resp'.body.id = req'.id]_vars

\* C22 witness: PUT /patients/pat1 with {id: "pat2"} succeeded; no patient is
\* found under pat1 any more and two patients share the id pat2.
C22_Witness ==
    /\ IsRequest(req, "PUT", "patients")
    /\ resp.status = 200
    /\ req.id = "pat1"
    /\ Has(req.body, "id")
    /\ req.body.id = "pat2"
    /\ ~Resolves(patients, "pat1")
    /\ ~UniqueIn(patients)

====
